---- MODULE Spec2Model ----
(***************************************************************************)
(* Model of the Origyn OEM pipeline: OEMWorkflow.run threads a             *)
(* PartInfoState dict through five LangGraph nodes (translate, search,     *)
(* synthesize, parse_output, vector_search) and projects the final state   *)
(* with OEMResult.from_state.                                              *)
(*                                                                         *)
(* Python strings are modelled as sequences of text atoms, so that         *)
(* f-string formatting is concatenation (\o), the empty string is << >>    *)
(* and the substring test `phrase in text` is atom membership.             *)
(***************************************************************************)
EXTENDS Integers, Sequences, FiniteSets, TLC

VARIABLES pc, query, state, result, trace, invoked

vars == <<pc, query, state, result, trace, invoked>>

(***************************************************************************)
(* Bounds of the model.                                                    *)
(***************************************************************************)
MaxItems == 2
MaxHits == 2

(***************************************************************************)
(* Python values held by the state dict.                                   *)
(***************************************************************************)
Absent == [tag |-> "absent"]
None == [tag |-> "None"]
Str(s) == [tag |-> "str", val |-> s]
IntV(n) == [tag |-> "int", num |-> n]
OEMOutput(o, c) == [tag |-> "OEMOutput", oem |-> o, part_category |-> c]

IsStr(v) == v.tag = "str"

\* bool(v): None, a missing key and "" are falsy; pydantic models are truthy
Truthy(v) ==
    CASE v.tag = "str" -> v.val # << >>
      [] v.tag = "int" -> v.num # 0
      [] v.tag = "OEMOutput" -> TRUE
      [] OTHER -> FALSE

\* state.get(key): a missing key reads as None
Get(st, key) == IF st[key] = Absent THEN None ELSE st[key]

\* state.get(key, default)
GetDefault(st, key, default) == IF st[key] = Absent THEN default ELSE st[key]

\* phrase in text
Contains(text, phrase) == \E i \in 1..Len(text) : text[i] = phrase

Keys ==
    {"original_query", "translated_query", "search_results", "llm_response_json",
     "parsed_oem_info", "unspsc_family", "unspsc_code", "error"}

\* inputs = {"original_query": part_query}
InitialState(q) == [k \in Keys |-> IF k = "original_query" THEN Str(q) ELSE Absent]

(***************************************************************************)
(* Inputs: queries and the messages of provider exceptions.                *)
(***************************************************************************)
SEARCH_ERROR_PHRASE == "Error performing search"
NO_RESULTS_PHRASE == "No search results found"

Queries ==
    {<<"SKF 6205">>, <<"Kugellager 6205">>, << >>, <<NO_RESULTS_PHRASE>>}

ExcMsgs == {<<"timeout">>, << >>}

(***************************************************************************)
(* translating_agent_node                                                  *)
(***************************************************************************)
TranslatedTexts == {<<"bearing 6205">>, << >>}

TranslationOutcomes ==
    [kind : {"client_raises", "detect_raises"}, msg : ExcMsgs]
    \cup [kind : {"detected"}, language : {"en"}]
    \cup [kind : {"translate_raises"}, language : {"de"}, msg : ExcMsgs]
    \cup [kind : {"detected"}, language : {"de"}, translatedText : TranslatedTexts]

\* a translation that calls translate whatever language was detected
TranslationCalls_AlwaysTranslates(o) ==
    CASE o.kind = "client_raises" -> << >>
      [] o.kind = "detect_raises" -> <<"detect_language">>
      [] OTHER -> <<"detect_language", "translate">>

TranslationCalls(o) ==
    CASE o.kind = "client_raises" -> << >>
      [] o.kind = "detect_raises" -> <<"detect_language">>
      [] o.language # "en" -> <<"detect_language", "translate">>
      [] OTHER -> <<"detect_language">>

\* translate that passes the untranslated query on when the provider fails
translate_FallsBackToOriginal(st, o) ==
    LET text == st["original_query"].val IN
    IF o.kind \in {"client_raises", "detect_raises", "translate_raises"}
    THEN [state |-> [st EXCEPT !["translated_query"] = Str(text),
                               !["error"] = Str(<<"Translation error: ">> \o o.msg)],
          path |-> "exception",
          calls |-> TranslationCalls(o)]
    ELSE LET translated_text == IF o.language # "en" THEN o.translatedText ELSE text IN
         [state |-> [st EXCEPT !["translated_query"] = Str(translated_text),
                               !["error"] = None],
          path |-> "translated",
          calls |-> TranslationCalls(o)]

translating_agent_node(st, o) ==
    LET text == st["original_query"].val IN
    IF o.kind \in {"client_raises", "detect_raises", "translate_raises"}
    THEN [state |-> [st EXCEPT !["error"] = Str(<<"Translation error: ">> \o o.msg)],
          path |-> "exception",
          calls |-> TranslationCalls(o)]
    ELSE LET translated_text == IF o.language # "en" THEN o.translatedText ELSE text IN
         [state |-> [st EXCEPT !["translated_query"] = Str(translated_text),
                               !["error"] = None],
          path |-> "translated",
          calls |-> TranslationCalls(o)]

(***************************************************************************)
(* web_search_agent_node                                                   *)
(***************************************************************************)
ItemFull ==
    [title |-> Str(<<"SKF 6205 deep groove ball bearing">>),
     link |-> Str(<<"https://skf.example/6205">>),
     snippet |-> Str(<<"SKF is the manufacturer of the 6205 bearing">>)]

ItemNoSnippet ==
    [title |-> Str(<<"6205 bearing">>),
     link |-> Str(<<"https://shop.example/6205">>),
     snippet |-> Absent]

ItemSentinelSnippet ==
    [title |-> Str(<<"6205 - forum">>),
     link |-> Str(<<"https://forum.example/6205">>),
     snippet |-> Str(<<"Sorry. ", NO_RESULTS_PHRASE, " for 6205 on this site">>)]

Items == {ItemFull, ItemNoSnippet, ItemSentinelSnippet}

ItemLists == UNION {[1..n -> Items] : n \in 0..MaxItems}

SearchOutcomes ==
    [kind : {"raises"}, msg : ExcMsgs]
    \cup [kind : {"response"}, has_items : {FALSE}, items : {<< >>}]
    \cup [kind : {"response"}, has_items : {TRUE}, items : ItemLists]

\* item.get(key, 'N/A')
ItemGet(item, key) == IF item[key] = Absent THEN <<"N/A">> ELSE item[key].val

FormatItem(i, item) ==
    <<"Result ", ToString(i), ":\n">>
    \o <<"Title: ">> \o ItemGet(item, "title") \o <<"\n">>
    \o <<"URL: ">> \o ItemGet(item, "link") \o <<"\n">>
    \o <<"Snippet: ">> \o ItemGet(item, "snippet") \o <<"\n\n">>

RECURSIVE FormatItems(_, _)
FormatItems(items, i) ==
    IF i > Len(items) THEN << >>
    ELSE FormatItem(i, items[i]) \o FormatItems(items, i + 1)

FormatResults(part_query, o) ==
    <<"Search results for part query: ">> \o part_query \o <<"\n\n">>
    \o (IF o.has_items /\ o.items # << >>
        THEN FormatItems(o.items, 1)
        ELSE <<NO_RESULTS_PHRASE, ".">>)

\* search that does not look at a previous error
web_search_IgnoresError(st, o) ==
    IF ~Truthy(Get(st, "translated_query"))
    THEN [state |-> [st EXCEPT !["error"] = Str(<<"No translated query available for search.">>)],
          path |-> "missing_input",
          calls |-> << >>]
    ELSE IF o.kind = "raises"
    THEN [state |-> [st EXCEPT !["search_results"] = Str(<<SEARCH_ERROR_PHRASE, ": ">> \o o.msg),
                               !["error"] = Str(<<"Search error: ">> \o o.msg)],
          path |-> "exception",
          calls |-> <<"search">>]
    ELSE [state |-> [st EXCEPT !["search_results"] = Str(FormatResults(st["translated_query"].val, o)),
                               !["error"] = None],
          path |-> IF o.has_items /\ o.items # << >> THEN "results" ELSE "no_results",
          calls |-> <<"search">>]

\* search that reports a provider failure in search_results only
web_search_FailureOnlySentinel(st, o) ==
    IF Truthy(Get(st, "error"))
    THEN [state |-> st, path |-> "skip", calls |-> << >>]
    ELSE IF ~Truthy(Get(st, "translated_query"))
    THEN [state |-> [st EXCEPT !["error"] = Str(<<"No translated query available for search.">>)],
          path |-> "missing_input",
          calls |-> << >>]
    ELSE IF o.kind = "raises"
    THEN [state |-> [st EXCEPT !["search_results"] = Str(<<SEARCH_ERROR_PHRASE, ": ">> \o o.msg),
                               !["error"] = None],
          path |-> "exception",
          calls |-> <<"search">>]
    ELSE [state |-> [st EXCEPT !["search_results"] = Str(FormatResults(st["translated_query"].val, o)),
                               !["error"] = None],
          path |-> IF o.has_items /\ o.items # << >> THEN "results" ELSE "no_results",
          calls |-> <<"search">>]

\* search that calls the provider a second time when the first call raised
web_search_RetriesOnce(st, o) ==
    IF Truthy(Get(st, "error"))
    THEN [state |-> st, path |-> "skip", calls |-> << >>]
    ELSE IF ~Truthy(Get(st, "translated_query"))
    THEN [state |-> [st EXCEPT !["error"] = Str(<<"No translated query available for search.">>)],
          path |-> "missing_input",
          calls |-> << >>]
    ELSE IF o.kind = "raises"
    THEN [state |-> [st EXCEPT !["search_results"] = Str(<<SEARCH_ERROR_PHRASE, ": ">> \o o.msg),
                               !["error"] = Str(<<"Search error: ">> \o o.msg)],
          path |-> "exception",
          calls |-> <<"search", "search">>]
    ELSE [state |-> [st EXCEPT !["search_results"] = Str(FormatResults(st["translated_query"].val, o)),
                               !["error"] = None],
          path |-> IF o.has_items /\ o.items # << >> THEN "results" ELSE "no_results",
          calls |-> <<"search">>]

web_search_agent_node(st, o) ==
    IF Truthy(Get(st, "error"))
    THEN [state |-> st, path |-> "skip", calls |-> << >>]
    ELSE IF ~Truthy(Get(st, "translated_query"))
    THEN [state |-> [st EXCEPT !["error"] = Str(<<"No translated query available for search.">>)],
          path |-> "missing_input",
          calls |-> << >>]
    ELSE IF o.kind = "raises"
    THEN [state |-> [st EXCEPT !["search_results"] = Str(<<SEARCH_ERROR_PHRASE, ": ">> \o o.msg),
                               !["error"] = Str(<<"Search error: ">> \o o.msg)],
          path |-> "exception",
          calls |-> <<"search">>]
    ELSE [state |-> [st EXCEPT !["search_results"] = Str(FormatResults(st["translated_query"].val, o)),
                               !["error"] = None],
          path |-> IF o.has_items /\ o.items # << >> THEN "results" ELSE "no_results",
          calls |-> <<"search">>]

(***************************************************************************)
(* JSON text of an OEMOutput: model_dump_json and PydanticOutputParser     *)
(***************************************************************************)
QUOTE == "\""

JsonString(text) == <<QUOTE>> \o text \o <<QUOTE>>

model_dump_json(obj) ==
    <<"{">> \o JsonString(<<"oem">>) \o <<":">> \o JsonString(obj.oem) \o <<",">>
    \o JsonString(<<"part_category">>) \o <<":">> \o JsonString(obj.part_category) \o <<"}">>

NumberAtoms == {"5"}

\* index of the quote closing the string literal that opens at toks[1], or 0
ClosingQuote(toks) ==
    IF \E j \in 2..Len(toks) : toks[j] = QUOTE
    THEN CHOOSE j \in 2..Len(toks) : toks[j] = QUOTE /\ \A k \in 2..(j - 1) : toks[k] # QUOTE
    ELSE 0

Rest(toks, n) == SubSeq(toks, n + 1, Len(toks))

\* a JSON value at the head of toks: a string literal or a number
ParseValue(toks) ==
    IF toks = << >> THEN [ok |-> FALSE]
    ELSE IF toks[1] = QUOTE
    THEN LET j == ClosingQuote(toks) IN
         IF j = 0 THEN [ok |-> FALSE]
         ELSE [ok |-> TRUE, value |-> Str(SubSeq(toks, 2, j - 1)), rest |-> Rest(toks, j)]
    ELSE IF toks[1] \in NumberAtoms
    THEN [ok |-> TRUE, value |-> IntV(5), rest |-> Rest(toks, 1)]
    ELSE [ok |-> FALSE]

\* the members of a JSON object, as a sequence of [key, value] records
RECURSIVE ParseMembers(_, _)
ParseMembers(toks, acc) ==
    LET k == ParseValue(toks) IN
    IF ~k.ok \/ ~IsStr(k.value) \/ k.rest = << >> \/ Head(k.rest) # ":"
    THEN [ok |-> FALSE]
    ELSE LET v == ParseValue(Tail(k.rest)) IN
         IF ~v.ok THEN [ok |-> FALSE]
         ELSE LET members == Append(acc, [key |-> k.value.val, value |-> v.value]) IN
              IF v.rest = << >> THEN [ok |-> TRUE, members |-> members]
              ELSE IF Head(v.rest) = "," THEN ParseMembers(Tail(v.rest), members)
              ELSE [ok |-> FALSE]

ParseJsonObject(text) ==
    IF Len(text) < 2 \/ text[1] # "{" \/ text[Len(text)] # "}"
    THEN [ok |-> FALSE]
    ELSE IF Len(text) = 2 THEN [ok |-> TRUE, members |-> << >>]
    ELSE ParseMembers(SubSeq(text, 2, Len(text) - 1), << >>)

HasMember(members, key) == \E i \in 1..Len(members) : members[i].key = key

\* json.loads keeps the last member of a repeated key
Member(members, key) ==
    LET i == CHOOSE i \in 1..Len(members) :
                 members[i].key = key /\ \A j \in (i + 1)..Len(members) : members[j].key # key
    IN members[i].value

\* PydanticOutputParser(pydantic_object=OEMOutput).parse
parser_parse(text) ==
    LET json == ParseJsonObject(text) IN
    IF ~json.ok
    THEN [ok |-> FALSE, msg |-> <<"Invalid json output">>]
    ELSE IF \/ ~HasMember(json.members, <<"oem">>)
            \/ ~HasMember(json.members, <<"part_category">>)
    THEN [ok |-> FALSE, msg |-> <<"Failed to parse OEMOutput: field required">>]
    ELSE IF \/ ~IsStr(Member(json.members, <<"oem">>))
            \/ ~IsStr(Member(json.members, <<"part_category">>))
    THEN [ok |-> FALSE, msg |-> <<"Failed to parse OEMOutput: Input should be a valid string">>]
    ELSE [ok |-> TRUE,
          value |-> OEMOutput(Member(json.members, <<"oem">>).val,
                              Member(json.members, <<"part_category">>).val)]

(***************************************************************************)
(* synthesize_oem_info_node                                                *)
(***************************************************************************)
LLMTexts ==
    {model_dump_json(OEMOutput(<<"skf">>, <<"bearings">>)),
     model_dump_json(OEMOutput(<<"skf">>, <<"na">>)),
     model_dump_json(OEMOutput(<<"NA">>, <<"NA">>)),
     <<"{">> \o JsonString(<<"oem">>) \o <<":">> \o JsonString(<<"skf">>) \o <<"}">>,
     <<"{">> \o JsonString(<<"oem">>) \o <<":", "5", ",">>
         \o JsonString(<<"part_category">>) \o <<":">> \o JsonString(<<"bearings">>) \o <<"}">>,
     <<"The manufacturer is SKF">>,
     << >>}

CompletionOutcomes ==
    [kind : {"agent_raises", "completion_raises"}, msg : ExcMsgs]
    \cup [kind : {"content"}, content : {None} \cup {Str(t) : t \in LLMTexts}]

\* a soft-failure path that stores the canonical answer but records no error
Synthesis_SilentSoftFailure(st, o) ==
    LET search_results_content == Get(st, "search_results") IN
    IF \/ ~Truthy(search_results_content)
       \/ Contains(search_results_content.val, SEARCH_ERROR_PHRASE)
       \/ Contains(search_results_content.val, NO_RESULTS_PHRASE)
    THEN LET na_output == OEMOutput(<<"NA">>, <<"NA">>) IN
         [state |-> [st EXCEPT !["llm_response_json"] = Str(model_dump_json(na_output)),
                               !["parsed_oem_info"] = na_output],
          path |-> "soft_failure",
          calls |-> << >>]
    ELSE IF o.kind \in {"agent_raises", "completion_raises"}
    THEN [state |-> [st EXCEPT !["error"] = Str(<<"LLM synthesis error: ">> \o o.msg)],
          path |-> "exception",
          calls |-> IF o.kind = "completion_raises" THEN <<"completion">> ELSE << >>]
    ELSE [state |-> [st EXCEPT !["llm_response_json"] = o.content,
                               !["error"] = None],
          path |-> "completed",
          calls |-> <<"completion">>]

\* a synthesis that stores its failure message as the completion text
Synthesis_StoresFailureText(st, o) ==
    LET search_results_content == Get(st, "search_results") IN
    IF \/ ~Truthy(search_results_content)
       \/ Contains(search_results_content.val, SEARCH_ERROR_PHRASE)
       \/ Contains(search_results_content.val, NO_RESULTS_PHRASE)
    THEN LET na_output == OEMOutput(<<"NA">>, <<"NA">>) IN
         [state |-> [st EXCEPT !["llm_response_json"] = Str(model_dump_json(na_output)),
                               !["parsed_oem_info"] = na_output,
                               !["error"] = Str(<<"No valid search results for synthesis.">>)],
          path |-> "soft_failure",
          calls |-> << >>]
    ELSE IF o.kind \in {"agent_raises", "completion_raises"}
    THEN [state |-> [st EXCEPT !["llm_response_json"] = Str(<<"LLM synthesis error: ">> \o o.msg),
                               !["error"] = Str(<<"LLM synthesis error: ">> \o o.msg)],
          path |-> "exception",
          calls |-> IF o.kind = "completion_raises" THEN <<"completion">> ELSE << >>]
    ELSE [state |-> [st EXCEPT !["llm_response_json"] = o.content,
                               !["error"] = None],
          path |-> "completed",
          calls |-> <<"completion">>]

\* the body of synthesize_oem_info_node below its check of a previous error
Synthesis(st, o) ==
    LET search_results_content == Get(st, "search_results") IN
    IF \/ ~Truthy(search_results_content)
            \/ Contains(search_results_content.val, SEARCH_ERROR_PHRASE)
            \/ Contains(search_results_content.val, NO_RESULTS_PHRASE)
    THEN LET na_output == OEMOutput(<<"NA">>, <<"NA">>) IN
         [state |-> [st EXCEPT !["llm_response_json"] = Str(model_dump_json(na_output)),
                               !["parsed_oem_info"] = na_output,
                               !["error"] = Str(<<"No valid search results for synthesis.">>)],
          path |-> "soft_failure",
          calls |-> << >>]
    ELSE IF o.kind \in {"agent_raises", "completion_raises"}
    THEN [state |-> [st EXCEPT !["error"] = Str(<<"LLM synthesis error: ">> \o o.msg)],
          path |-> "exception",
          calls |-> IF o.kind = "completion_raises" THEN <<"completion">> ELSE << >>]
    ELSE [state |-> [st EXCEPT !["llm_response_json"] = o.content,
                               !["error"] = None],
          path |-> "completed",
          calls |-> <<"completion">>]

\* synthesize that does not look at a previous error
synthesize_IgnoresError(st, o) == Synthesis(st, o)

synthesize_oem_info_node(st, o) ==
    IF Truthy(Get(st, "error"))
    THEN [state |-> st, path |-> "skip", calls |-> << >>]
    ELSE Synthesis(st, o)

(***************************************************************************)
(* parse_llm_output_node                                                   *)
(***************************************************************************)
\* parse_output that falls back to the canonical answer when parsing fails
parse_FallsBackOnFailure(st) ==
    LET llm_json_response == Get(st, "llm_response_json") IN
    IF Truthy(Get(st, "error")) /\ llm_json_response = None
    THEN [state |-> st, path |-> "skip", calls |-> << >>]
    ELSE IF ~Truthy(llm_json_response)
    THEN [state |-> [st EXCEPT !["error"] = Str(<<"No LLM response to parse.">>)],
          path |-> "missing_input",
          calls |-> << >>]
    ELSE LET parsed == parser_parse(llm_json_response.val) IN
         IF parsed.ok
         THEN [state |-> [st EXCEPT !["parsed_oem_info"] = parsed.value,
                                    !["error"] = Get(st, "error")],
               path |-> "parsed",
               calls |-> << >>]
         ELSE [state |-> [st EXCEPT !["parsed_oem_info"] = OEMOutput(<<"NA">>, <<"NA">>),
                                    !["error"] =
                             Str(<<"Parsing error: ">> \o parsed.msg
                                 \o <<". Original LLM response: ">> \o llm_json_response.val)],
               path |-> "exception",
               calls |-> << >>]

\* parse_output that skips on any previous error
parse_SkipsOnAnyError(st) ==
    LET llm_json_response == Get(st, "llm_response_json") IN
    IF Truthy(Get(st, "error"))
    THEN [state |-> st, path |-> "skip", calls |-> << >>]
    ELSE IF ~Truthy(llm_json_response)
    THEN [state |-> [st EXCEPT !["error"] = Str(<<"No LLM response to parse.">>)],
          path |-> "missing_input",
          calls |-> << >>]
    ELSE LET parsed == parser_parse(llm_json_response.val) IN
         IF parsed.ok
         THEN [state |-> [st EXCEPT !["parsed_oem_info"] = parsed.value,
                                    !["error"] = Get(st, "error")],
               path |-> "parsed",
               calls |-> << >>]
         ELSE [state |-> [st EXCEPT !["error"] =
                             Str(<<"Parsing error: ">> \o parsed.msg
                                 \o <<". Original LLM response: ">> \o llm_json_response.val)],
               path |-> "exception",
               calls |-> << >>]

\* parse_output whose failure message leaves out the text it could not parse
parse_OmitsRawText(st) ==
    LET llm_json_response == Get(st, "llm_response_json") IN
    IF Truthy(Get(st, "error")) /\ llm_json_response = None
    THEN [state |-> st, path |-> "skip", calls |-> << >>]
    ELSE IF ~Truthy(llm_json_response)
    THEN [state |-> [st EXCEPT !["error"] = Str(<<"No LLM response to parse.">>)],
          path |-> "missing_input",
          calls |-> << >>]
    ELSE LET parsed == parser_parse(llm_json_response.val) IN
         IF parsed.ok
         THEN [state |-> [st EXCEPT !["parsed_oem_info"] = parsed.value,
                                    !["error"] = Get(st, "error")],
               path |-> "parsed",
               calls |-> << >>]
         ELSE [state |-> [st EXCEPT !["error"] = Str(<<"Parsing error: ">> \o parsed.msg)],
               path |-> "exception",
               calls |-> << >>]

\* parse_output that clears the error when parsing succeeds
parse_ClearsErrorOnSuccess(st) ==
    LET llm_json_response == Get(st, "llm_response_json") IN
    IF Truthy(Get(st, "error")) /\ llm_json_response = None
    THEN [state |-> st, path |-> "skip", calls |-> << >>]
    ELSE IF ~Truthy(llm_json_response)
    THEN [state |-> [st EXCEPT !["error"] = Str(<<"No LLM response to parse.">>)],
          path |-> "missing_input",
          calls |-> << >>]
    ELSE LET parsed == parser_parse(llm_json_response.val) IN
         IF parsed.ok
         THEN [state |-> [st EXCEPT !["parsed_oem_info"] = parsed.value,
                                    !["error"] = None],
               path |-> "parsed",
               calls |-> << >>]
         ELSE [state |-> [st EXCEPT !["error"] =
                             Str(<<"Parsing error: ">> \o parsed.msg
                                 \o <<". Original LLM response: ">> \o llm_json_response.val)],
               path |-> "exception",
               calls |-> << >>]

parse_llm_output_node(st) ==
    LET llm_json_response == Get(st, "llm_response_json") IN
    IF Truthy(Get(st, "error")) /\ llm_json_response = None
    THEN [state |-> st, path |-> "skip", calls |-> << >>]
    ELSE IF ~Truthy(llm_json_response)
    THEN [state |-> [st EXCEPT !["error"] = Str(<<"No LLM response to parse.">>)],
          path |-> "missing_input",
          calls |-> << >>]
    ELSE LET parsed == parser_parse(llm_json_response.val) IN
         IF parsed.ok
         THEN [state |-> [st EXCEPT !["parsed_oem_info"] = parsed.value,
                                    !["error"] = Get(st, "error")],
               path |-> "parsed",
               calls |-> << >>]
         ELSE [state |-> [st EXCEPT !["error"] =
                             Str(<<"Parsing error: ">> \o parsed.msg
                                 \o <<". Original LLM response: ">> \o llm_json_response.val)],
               path |-> "exception",
               calls |-> << >>]

(***************************************************************************)
(* vector_search_agent_node                                                *)
(***************************************************************************)
MetaFull ==
    [family |-> Str(<<"31">>), family_title |-> Str(<<"bearings and bearing devices">>)]

MetaOther ==
    [family |-> Str(<<"40">>), family_title |-> Str(<<"distribution and conditioning systems">>)]

\* pandas reads a numeric family column as integers (setup_vectordb.py)
MetaIntFamily ==
    [family |-> IntV(31), family_title |-> Str(<<"bearings and bearing devices">>)]

MetaNoTitle == [family |-> Str(<<"31">>), family_title |-> Absent]

MetaNoFamily == [family |-> Absent, family_title |-> Str(<<"bearings and bearing devices">>)]

Metadatas == {MetaFull, MetaOther, MetaIntFamily, MetaNoTitle, MetaNoFamily, None}

HitLists == UNION {[1..n -> Metadatas] : n \in 0..MaxHits}

VectorOutcomes ==
    [kind : {"agent_raises", "search_raises"}, msg : ExcMsgs]
    \cup [kind : {"empty_results"}]
    \cup [kind : {"results"}, metadatas : HitLists]

\* metadata.get(key, 'na')
MetaGet(meta, key) == IF meta[key] = Absent THEN Str(<<"na">>) ELSE meta[key]

\* state.get("error") without the fallback to the stage's own message
ErrorOr_WithoutFallback(st, error_msg) == Get(st, "error")

\* state.get("error") or error_msg
ErrorOr(st, error_msg) == IF Truthy(Get(st, "error")) THEN Get(st, "error") ELSE Str(error_msg)

\* vector_search that always records its own message when the index raises
vector_search_OverwritesError(st, o) ==
    LET parsed_oem_info == Get(st, "parsed_oem_info")
        part_category == IF Truthy(parsed_oem_info) THEN parsed_oem_info.part_category ELSE <<"na">>
        raised(msg, calls) ==
            [state |-> [st EXCEPT !["error"] = Str(<<"Vector search error: ">> \o msg)],
             path |-> "exception",
             calls |-> calls]
    IN
    IF Truthy(Get(st, "error")) /\ ~Truthy(parsed_oem_info)
    THEN [state |-> st, path |-> "skip", calls |-> << >>]
    ELSE IF o.kind = "agent_raises"
    THEN raised(o.msg, << >>)
    ELSE IF part_category = <<"na">>
    THEN [state |-> [st EXCEPT !["unspsc_code"] = Str(<<"na">>),
                               !["unspsc_family"] = Str(<<"na">>),
                               !["error"] = ErrorOr(st, <<"No valid part category">>)],
          path |-> "na_category",
          calls |-> << >>]
    ELSE IF o.kind = "search_raises"
    THEN raised(o.msg, <<"vector_index">>)
    ELSE IF o.kind = "empty_results" \/ o.metadatas = << >>
    THEN [state |-> [st EXCEPT !["unspsc_code"] = Str(<<"na">>),
                               !["unspsc_family"] = Str(<<"na">>),
                               !["error"] = Get(st, "error")],
          path |-> "no_hits",
          calls |-> <<"vector_index">>]
    ELSE IF o.metadatas[1] = None
    THEN raised(<<"'NoneType' object has no attribute 'get'">>, <<"vector_index">>)
    ELSE [state |-> [st EXCEPT !["unspsc_code"] = MetaGet(o.metadatas[1], "family"),
                               !["unspsc_family"] = MetaGet(o.metadatas[1], "family_title"),
                               !["error"] = Get(st, "error")],
          path |-> "hit",
          calls |-> <<"vector_index">>]

\* vector_search that clears the error when the index returns a hit
vector_search_ClearsErrorOnHit(st, o) ==
    LET parsed_oem_info == Get(st, "parsed_oem_info")
        part_category == IF Truthy(parsed_oem_info) THEN parsed_oem_info.part_category ELSE <<"na">>
        raised(msg, calls) ==
            [state |-> [st EXCEPT !["error"] = ErrorOr(st, <<"Vector search error: ">> \o msg)],
             path |-> "exception",
             calls |-> calls]
    IN
    IF Truthy(Get(st, "error")) /\ ~Truthy(parsed_oem_info)
    THEN [state |-> st, path |-> "skip", calls |-> << >>]
    ELSE IF o.kind = "agent_raises"
    THEN raised(o.msg, << >>)
    ELSE IF part_category = <<"na">>
    THEN [state |-> [st EXCEPT !["unspsc_code"] = Str(<<"na">>),
                               !["unspsc_family"] = Str(<<"na">>),
                               !["error"] = ErrorOr(st, <<"No valid part category">>)],
          path |-> "na_category",
          calls |-> << >>]
    ELSE IF o.kind = "search_raises"
    THEN raised(o.msg, <<"vector_index">>)
    ELSE IF o.kind = "empty_results" \/ o.metadatas = << >>
    THEN [state |-> [st EXCEPT !["unspsc_code"] = Str(<<"na">>),
                               !["unspsc_family"] = Str(<<"na">>),
                               !["error"] = Get(st, "error")],
          path |-> "no_hits",
          calls |-> <<"vector_index">>]
    ELSE IF o.metadatas[1] = None
    THEN raised(<<"'NoneType' object has no attribute 'get'">>, <<"vector_index">>)
    ELSE [state |-> [st EXCEPT !["unspsc_code"] = MetaGet(o.metadatas[1], "family"),
                               !["unspsc_family"] = MetaGet(o.metadatas[1], "family_title"),
                               !["error"] = None],
          path |-> "hit",
          calls |-> <<"vector_index">>]

vector_search_agent_node(st, o) ==
    LET parsed_oem_info == Get(st, "parsed_oem_info")
        part_category == IF Truthy(parsed_oem_info) THEN parsed_oem_info.part_category ELSE <<"na">>
        raised(msg, calls) ==
            [state |-> [st EXCEPT !["error"] = ErrorOr(st, <<"Vector search error: ">> \o msg)],
             path |-> "exception",
             calls |-> calls]
    IN
    IF Truthy(Get(st, "error")) /\ ~Truthy(parsed_oem_info)
    THEN [state |-> st, path |-> "skip", calls |-> << >>]
    ELSE IF o.kind = "agent_raises"
    THEN raised(o.msg, << >>)
    ELSE IF part_category = <<"na">>
    THEN [state |-> [st EXCEPT !["unspsc_code"] = Str(<<"na">>),
                               !["unspsc_family"] = Str(<<"na">>),
                               !["error"] = ErrorOr(st, <<"No valid part category">>)],
          path |-> "na_category",
          calls |-> << >>]
    ELSE IF o.kind = "search_raises"
    THEN raised(o.msg, <<"vector_index">>)
    ELSE IF o.kind = "empty_results" \/ o.metadatas = << >>
    THEN [state |-> [st EXCEPT !["unspsc_code"] = Str(<<"na">>),
                               !["unspsc_family"] = Str(<<"na">>),
                               !["error"] = Get(st, "error")],
          path |-> "no_hits",
          calls |-> <<"vector_index">>]
    ELSE IF o.metadatas[1] = None
    THEN raised(<<"'NoneType' object has no attribute 'get'">>, <<"vector_index">>)
    ELSE [state |-> [st EXCEPT !["unspsc_code"] = MetaGet(o.metadatas[1], "family"),
                               !["unspsc_family"] = MetaGet(o.metadatas[1], "family_title"),
                               !["error"] = Get(st, "error")],
          path |-> "hit",
          calls |-> <<"vector_index">>]

(***************************************************************************)
(* OEMResult.from_state                                                    *)
(***************************************************************************)
NA == Str(<<"NA">>)

\* OEMResult(...): pydantic validates that every field is a str
OEMResult(original_query, oem, part_category, unspsc_code, unspsc_family) ==
    IF /\ IsStr(original_query) /\ IsStr(oem) /\ IsStr(part_category)
       /\ IsStr(unspsc_code) /\ IsStr(unspsc_family)
    THEN [tag |-> "OEMResult",
          original_query |-> original_query.val,
          oem |-> oem.val,
          part_category |-> part_category.val,
          unspsc_code |-> unspsc_code.val,
          unspsc_family |-> unspsc_family.val]
    ELSE [tag |-> "ValidationError"]

\* from_state that reports the translated query as the original one
from_state_TranslatedQuery(st) ==
    LET oem_info == Get(st, "parsed_oem_info") IN
    OEMResult(GetDefault(st, "translated_query", st["original_query"]),
              IF Truthy(oem_info) THEN Str(oem_info.oem) ELSE NA,
              IF Truthy(oem_info) THEN Str(oem_info.part_category) ELSE NA,
              GetDefault(st, "unspsc_code", NA),
              GetDefault(st, "unspsc_family", NA))

\* from_state with the two taxonomy fields exchanged
from_state_SwapsTaxonomy(st) ==
    LET oem_info == Get(st, "parsed_oem_info") IN
    OEMResult(st["original_query"],
              IF Truthy(oem_info) THEN Str(oem_info.oem) ELSE NA,
              IF Truthy(oem_info) THEN Str(oem_info.part_category) ELSE NA,
              GetDefault(st, "unspsc_family", NA),
              GetDefault(st, "unspsc_code", NA))

from_state(st) ==
    LET oem_info == Get(st, "parsed_oem_info") IN
    OEMResult(st["original_query"],
              IF Truthy(oem_info) THEN Str(oem_info.oem) ELSE NA,
              IF Truthy(oem_info) THEN Str(oem_info.part_category) ELSE NA,
              GetDefault(st, "unspsc_code", NA),
              GetDefault(st, "unspsc_family", NA))

(***************************************************************************)
(* The graph of OEMWorkflow._build_workflow                                *)
(***************************************************************************)
Nodes == <<"translate", "search", "synthesize", "parse_output", "vector_search">>

ENTRY_POINT == "translate"

\* a graph whose synthesize edge bypasses parse_output
Edge_BypassesParse(node) ==
    CASE node = "translate" -> "search"
      [] node = "search" -> "synthesize"
      [] node = "synthesize" -> "vector_search"
      [] node = "parse_output" -> "vector_search"
      [] node = "vector_search" -> "END"

Edge(node) ==
    CASE node = "translate" -> "search"
      [] node = "search" -> "synthesize"
      [] node = "synthesize" -> "parse_output"
      [] node = "parse_output" -> "vector_search"
      [] node = "vector_search" -> "END"

Pending == [tag |-> "pending"]

Init ==
    /\ pc = "idle"
    /\ query = << >>
    /\ state = InitialState(<< >>)
    /\ result = Pending
    /\ trace = << >>
    /\ invoked = << >>

\* run(part_query) up to the invocation of the compiled graph
Run ==
    /\ pc = "idle"
    /\ \E q \in Queries :
        /\ query' = q
        /\ state' = InitialState(q)
    /\ pc' = ENTRY_POINT
    /\ UNCHANGED <<result, trace, invoked>>

\* the outcome recorded for a node that made no provider call
Unused == [kind |-> "unused"]

\* one node of the graph runs: the provider outcome o decides what its calls do
Step(node, o, r) ==
    /\ state' = r.state
    /\ trace' = Append(trace, [stage |-> node,
                               outcome |-> IF r.calls = << >> THEN Unused ELSE o,
                               path |-> r.path,
                               pre |-> state, post |-> r.state, calls |-> r.calls])
    /\ invoked' = invoked \o r.calls
    /\ pc' = Edge(node)
    /\ UNCHANGED <<query, result>>

Translate ==
    /\ pc = "translate"
    /\ \E o \in TranslationOutcomes : Step("translate", o, translating_agent_node(state, o))

Search ==
    /\ pc = "search"
    /\ \E o \in SearchOutcomes : Step("search", o, web_search_agent_node(state, o))

Synthesize ==
    /\ pc = "synthesize"
    /\ \E o \in CompletionOutcomes : Step("synthesize", o, synthesize_oem_info_node(state, o))

ParseOutput ==
    /\ pc = "parse_output"
    /\ Step("parse_output", Unused, parse_llm_output_node(state))

VectorSearch ==
    /\ pc = "vector_search"
    /\ \E o \in VectorOutcomes : Step("vector_search", o, vector_search_agent_node(state, o))

\* run(part_query) after the graph has ended: project the final state
Assemble ==
    /\ pc = "END"
    /\ result' = from_state(state)
    /\ pc' = "done"
    /\ UNCHANGED <<query, state, trace, invoked>>

Next == Run \/ Translate \/ Search \/ Synthesize \/ ParseOutput \/ VectorSearch \/ Assemble

Spec == Init /\ [][Next]_vars

(***************************************************************************)
(* Properties                                                              *)
(***************************************************************************)
Ran(i) == Len(trace) >= i

Returned == pc = "done" /\ result.tag = "OEMResult"

ResultOf(q, oem, part_category, unspsc_code, unspsc_family) ==
    [tag |-> "OEMResult", original_query |-> q, oem |-> oem, part_category |-> part_category,
     unspsc_code |-> unspsc_code, unspsc_family |-> unspsc_family]

\* C1: one call of run invokes the five stages exactly once each, in the order
\* translate, search, synthesize, parse_output, vector_search, whatever the
\* providers do, and then ends: the stages run so far are always a prefix of
\* that order, the next stage is the one after the prefix, and the run is past
\* the graph exactly when all five have run.
C1_StagesOnceInOrder ==
    /\ Len(trace) <= Len(Nodes)
    /\ \A i \in 1..Len(trace) : trace[i].stage = Nodes[i]
    /\ pc \in {"END", "done"} <=> Len(trace) = Len(Nodes)
    /\ pc \notin {"idle", "END", "done"} => pc = Nodes[Len(trace) + 1]
    /\ pc = "idle" => trace = << >>

\* a finished run in which providers failed at two stages
C1_Witness ==
    /\ pc = "done"
    /\ Len(trace) = 5
    /\ trace[2].path = "results"
    /\ trace[3].path = "exception"
    /\ trace[5].path = "skip"

\* C2: run is total: whatever the providers do, the run ends with a Result
\* returned, never with an exception raised past run.
C2_RunIsTotal == pc = "done" => result.tag = "OEMResult"

\* C3: OEMResult.from_state returns a Result of five strings for every final
\* Record and never raises; absent classification gives oem = part_category =
\* "NA", absent taxonomy fields give "NA", and the error field has no influence.
C3_FromStateTotal ==
    pc \in {"END", "done"} =>
        LET r == from_state(state) IN
        /\ r.tag = "OEMResult"
        /\ state["parsed_oem_info"] = Absent => r.oem = <<"NA">> /\ r.part_category = <<"NA">>
        /\ state["unspsc_code"] = Absent => r.unspsc_code = <<"NA">>
        /\ state["unspsc_family"] = Absent => r.unspsc_family = <<"NA">>
        /\ \A e \in {Absent, None, Str(<<"Search error: ">>)} :
               from_state([state EXCEPT !["error"] = e]) = r

\* C4: original_query is set at the start of the run and no stage changes it:
\* the Record's original_query is the query passed to run in every state of the
\* run, and a returned Result carries that query.
C4_OriginalQueryPreserved ==
    pc # "idle" =>
        /\ state["original_query"] = Str(query)
        /\ \A i \in 1..Len(trace) : trace[i].post["original_query"] = Str(query)
        /\ result.tag = "OEMResult" => result.original_query = query

\* a returned Result of a run whose translation differs from the query
C4_Witness ==
    /\ Returned
    /\ query = <<"Kugellager 6205">>
    /\ state["translated_query"] = Str(<<"bearing 6205">>)
    /\ result.original_query = <<"Kugellager 6205">>

\* the search provider was called and raised
SearchRaised == Ran(2) /\ trace[2].path = "exception" /\ trace[2].calls = <<"search">>

\* C5: if the search provider call raises, neither the completion provider nor
\* the vector index is invoked in that run, and the run returns the Result
\* with "NA" in oem, part_category, unspsc_code and unspsc_family.
C5_SearchFailureGivesNA ==
    SearchRaised =>
        /\ ~Contains(invoked, "completion")
        /\ ~Contains(invoked, "vector_index")
        /\ pc = "done" =>
               result = ResultOf(query, <<"NA">>, <<"NA">>, <<"NA">>, <<"NA">>)

C5_Witness ==
    /\ pc = "done"
    /\ SearchRaised
    /\ trace[1].path = "translated"
    /\ trace[2].outcome.msg = <<"timeout">>

NaLower == Str(<<"na">>)

\* C6: if the vector index returns zero neighbours for a part category that is
\* not "na", the returned Result has unspsc_code = unspsc_family = "NA".
C6_ZeroHitsGiveNA ==
    (pc = "done" /\ trace[3].path = "completed" /\ trace[5].path = "no_hits") =>
        /\ result.tag = "OEMResult"
        /\ result.unspsc_code = <<"NA">>
        /\ result.unspsc_family = <<"NA">>

\* stage i recorded a failure: it set error to a message it did not find there
RecordedFailure(i) ==
    /\ Truthy(trace[i].post["error"])
    /\ trace[i].post["error"] # trace[i].pre["error"]

\* C7: once a stage has recorded a failure, every later stage of the run
\* either leaves the Record unchanged or takes its "na" path, and none of them
\* calls its provider; in particular the vector index is not queried after the
\* soft-failure path of synthesize.
C7_SkipPredicate ==
    \A i, j \in 1..Len(trace) :
        (i < j /\ RecordedFailure(i)) =>
            /\ trace[j].calls = << >>
            /\ trace[j].post = trace[j].pre \/ trace[j].path = "na_category"

\* C8: unspsc_code and unspsc_family are both absent, or both "na", or both
\* values read from the top hit of the index; never one without the other and
\* never one "na" beside a value.
C8_TaxonomyPaired ==
    LET code == state["unspsc_code"]
        family == state["unspsc_family"]
    IN \/ code = Absent /\ family = Absent
       \/ code = NaLower /\ family = NaLower
       \/ /\ code \notin {Absent, NaLower}
          /\ family \notin {Absent, NaLower}
          /\ Ran(5)
          /\ trace[5].path = "hit"
          /\ code = trace[5].outcome.metadatas[1]["family"]
          /\ family = trace[5].outcome.metadatas[1]["family_title"]

ParsedBy(i) == Ran(i) /\ trace[i].stage = "parse_output" /\ trace[i].path = "parsed"

\* C9 as stated: parsed_oem_info is written only by parse_output, after
\* llm_response_json was parsed and validated: whenever it is present,
\* parse_output has already run successfully in this run.
C9_OnlyParsingWrites ==
    state["parsed_oem_info"] # Absent => \E i \in 1..Len(trace) : ParsedBy(i)

\* C9 amended: parsed_oem_info is written by parse_output after a successful
\* parse, or by the soft-failure path of synthesize, which stores the canonical
\* OEMOutput("NA", "NA") together with its JSON text; whenever it is present one
\* of the two has happened in this run, it holds both oem and part_category as
\* strings, and it is what llm_response_json parses to.
C9_ParsingOrSoftFailureWrites ==
    state["parsed_oem_info"] # Absent =>
        /\ \E i \in 1..Len(trace) :
               \/ ParsedBy(i)
               \/ trace[i].stage = "synthesize" /\ trace[i].path = "soft_failure"
        /\ state["parsed_oem_info"].tag = "OEMOutput"
        /\ state["parsed_oem_info"].oem \in Seq(STRING)
        /\ state["parsed_oem_info"].part_category \in Seq(STRING)
        /\ IsStr(state["llm_response_json"])
        /\ parser_parse(state["llm_response_json"].val)
               = [ok |-> TRUE, value |-> state["parsed_oem_info"]]

\* parse_output parsed the text the completion provider returned
C9_Witness ==
    /\ ParsedBy(4)
    /\ trace[3].path = "completed"
    /\ state["parsed_oem_info"] = OEMOutput(<<"skf">>, <<"bearings">>)

Names == {<<"skf">>, <<"NA">>, <<"bearings">>, <<"na">>}

\* every provider succeeded: the completion returned the JSON text of
\* {oem: o, part_category: c} and the top hit carries family f and title t
ScenarioA(o, c, f, t) ==
    /\ pc = "done"
    /\ trace[1].path = "translated"
    /\ trace[2].path = "results"
    /\ trace[3].path = "completed"
    /\ trace[3].outcome.content = Str(model_dump_json(OEMOutput(o, c)))
    /\ trace[5].calls = <<"vector_index">>
    /\ trace[5].outcome.kind = "results"
    /\ trace[5].outcome.metadatas # << >>
    /\ trace[5].outcome.metadatas[1] = [family |-> Str(f), family_title |-> Str(t)]

\* C10: when translation, search, completion and index all succeed, with the
\* completion returning valid JSON {oem: o, part_category: c}, c not "na", and
\* the nearest hit having family f and family_title t, the Result is exactly
\* {original_query: query, oem: o, part_category: c, unspsc_code: f,
\* unspsc_family: t} and the final Record carries no error.
C10_ScenarioA ==
    \A o \in Names, c \in Names \ {<<"na">>} :
        \A m \in {MetaFull, MetaOther} :
            ScenarioA(o, c, m.family.val, m.family_title.val) =>
                /\ result = ResultOf(query, o, c, m.family.val, m.family_title.val)
                /\ Get(state, "error") = None

C10_Witness ==
    /\ ScenarioA(<<"skf">>, <<"bearings">>, <<"31">>, <<"bearings and bearing devices">>)
    /\ query = <<"SKF 6205">>
    /\ Len(trace[5].outcome.metadatas) = 2
    /\ trace[5].outcome.metadatas[2] = MetaOther
    /\ result = ResultOf(<<"SKF 6205">>, <<"skf">>, <<"bearings">>, <<"31">>,
                         <<"bearings and bearing devices">>)

\* the completion provider returned text that parse_output could not validate
InvalidCompletion ==
    /\ Ran(4)
    /\ trace[3].path = "completed"
    /\ trace[4].path = "exception"

\* the text ends with ". Original LLM response: " followed by raw
EndsWithRaw(text, raw) ==
    /\ Len(text) >= Len(raw) + 2
    /\ text[1] = "Parsing error: "
    /\ text[Len(text) - Len(raw)] = ". Original LLM response: "
    /\ SubSeq(text, Len(text) - Len(raw) + 1, Len(text)) = raw

\* C11 as stated: when the completion text fails validation, parse_output
\* overwrites error with a parsing-failure message holding the raw text and
\* leaves parsed_oem_info absent; vector_search then sets unspsc_code and
\* unspsc_family to "na" without querying the index.
C11_InvalidCompletionGivesNaTaxonomy ==
    InvalidCompletion =>
        /\ EndsWithRaw(trace[4].post["error"].val, trace[3].outcome.content.val)
        /\ trace[4].post["parsed_oem_info"] = Absent
        /\ Ran(5) =>
               /\ trace[5].calls = << >>
               /\ state["unspsc_code"] = NaLower
               /\ state["unspsc_family"] = NaLower

\* C11 amended: when the completion text fails validation, parse_output
\* overwrites error with a parsing-failure message holding the raw text and
\* leaves parsed_oem_info absent; vector_search then skips: it returns the
\* Record unchanged, with unspsc_code and unspsc_family still absent, without
\* querying the index, and the Result shows "NA" in all four fields.
C11_InvalidCompletionSkipsTaxonomy ==
    InvalidCompletion =>
        /\ EndsWithRaw(trace[4].post["error"].val, trace[3].outcome.content.val)
        /\ trace[4].post["parsed_oem_info"] = Absent
        /\ Ran(5) =>
               /\ trace[5].path = "skip"
               /\ trace[5].calls = << >>
               /\ trace[5].post = trace[5].pre
               /\ state["unspsc_code"] = Absent
               /\ state["unspsc_family"] = Absent
        /\ pc = "done" =>
               result = ResultOf(query, <<"NA">>, <<"NA">>, <<"NA">>, <<"NA">>)

C11_Witness ==
    /\ pc = "done"
    /\ InvalidCompletion
    /\ trace[3].outcome.content = Str(<<"The manufacturer is SKF">>)
    /\ trace[5].path = "skip"

TranslationFailed == Ran(1) /\ trace[1].path = "exception"

\* C12: if the translation provider fails, translate sets error to a
\* translation-failure message and leaves translated_query absent; the four
\* later stages return the Record unchanged and call no provider, so the final
\* Record holds only original_query and that error, and the Result has "NA" in
\* oem, part_category, unspsc_code and unspsc_family.
C12_TranslationFailureSkipsAll ==
    TranslationFailed =>
        /\ \E msg \in ExcMsgs :
               state = [InitialState(query) EXCEPT
                            !["error"] = Str(<<"Translation error: ">> \o msg)]
        /\ \A j \in 2..Len(trace) :
               /\ trace[j].post = trace[j].pre
               /\ trace[j].calls = << >>
        /\ \A i \in 1..Len(invoked) : invoked[i] \in {"detect_language", "translate"}
        /\ pc = "done" =>
               result = ResultOf(query, <<"NA">>, <<"NA">>, <<"NA">>, <<"NA">>)

C12_Witness ==
    /\ pc = "done"
    /\ TranslationFailed
    /\ trace[1].calls = <<"detect_language", "translate">>
    /\ state["error"] = Str(<<"Translation error: ", "timeout">>)
    /\ result.oem = <<"NA">>

CallsTo(provider) == Cardinality({i \in 1..Len(invoked) : invoked[i] = provider})

\* the provider each stage may call
ProviderOf(node) ==
    CASE node = "search" -> "search"
      [] node = "synthesize" -> "completion"
      [] node = "vector_search" -> "vector_index"
      [] OTHER -> "none"

\* C14: no provider call is retried: in one run the search provider, the
\* completion provider and the vector index are each called at most once, each
\* only by its own stage, also when the call fails.
C14_NoRetry ==
    /\ \A p \in {"search", "completion", "vector_index"} : CallsTo(p) <= 1
    /\ \A i \in 2..Len(trace) :
           \/ trace[i].calls = << >>
           \/ trace[i].calls = <<ProviderOf(trace[i].stage)>>

\* all three providers were called and the last call failed
C14_Witness ==
    /\ pc = "done"
    /\ invoked = <<"detect_language", "search", "completion", "vector_index">>
    /\ trace[5].path = "exception"
    /\ trace[5].outcome.kind = "search_raises"

\* synthesize was entered with no error in the Record
SynthesisEntered == Ran(3) /\ ~Truthy(Get(trace[3].pre, "error"))

\* the text search writes when the provider returned zero results
NoResultsText(part_query) ==
    <<"Search results for part query: ">> \o part_query \o <<"\n\n", NO_RESULTS_PHRASE, ".">>

\* C15: synthesize, entered with error absent, takes the soft-failure path
\* exactly when search_results is absent, or is the "no results" text, or
\* contains the search-failure sentinel; otherwise, and so whenever the search
\* returned at least one result, it calls the completion provider, and when
\* that answers it stores the raw text in llm_response_json and clears error.
C15_SoftFailureExactly ==
    SynthesisEntered =>
        LET pre == trace[3].pre
            search_results == Get(pre, "search_results")
        IN
        /\ trace[3].path = "soft_failure" <=>
               \/ search_results = None
               \/ search_results.val = NoResultsText(pre["translated_query"].val)
               \/ Contains(search_results.val, SEARCH_ERROR_PHRASE)
        /\ trace[2].path = "results" => trace[3].path \in {"completed", "exception"}
        /\ trace[3].path = "completed" =>
               /\ trace[3].calls = <<"completion">>
               /\ trace[3].post["llm_response_json"] = trace[3].outcome.content
               /\ trace[3].post["error"] = None

SoftFailure == Ran(3) /\ trace[3].path = "soft_failure"

CanonicalJson ==
    <<"{", QUOTE, "oem", QUOTE, ":", QUOTE, "NA", QUOTE, ",",
      QUOTE, "part_category", QUOTE, ":", QUOTE, "NA", QUOTE, "}">>

NoValidResultsError == Str(<<"No valid search results for synthesis.">>)

\* C16 as stated: on the soft-failure path the completion provider is not
\* called, llm_response_json becomes the JSON text of {oem: "NA",
\* part_category: "NA"}, error becomes the fixed no-valid-search-results
\* message, and no other field of the Record changes.
C16_SoftFailureFrame ==
    SoftFailure =>
        /\ trace[3].calls = << >>
        /\ trace[3].post = [trace[3].pre EXCEPT
                                !["llm_response_json"] = Str(CanonicalJson),
                                !["error"] = NoValidResultsError]

\* C16 amended: on the soft-failure path the completion provider is not
\* called, llm_response_json becomes the JSON text of {oem: "NA",
\* part_category: "NA"}, parsed_oem_info becomes that canonical answer, error
\* becomes the fixed no-valid-search-results message, and no other field of
\* the Record changes.
C16_SoftFailureFrameWithClassification ==
    SoftFailure =>
        /\ trace[3].calls = << >>
        /\ ~Contains(invoked, "completion")
        /\ trace[3].post = [trace[3].pre EXCEPT
                                !["llm_response_json"] = Str(CanonicalJson),
                                !["parsed_oem_info"] = OEMOutput(<<"NA">>, <<"NA">>),
                                !["error"] = NoValidResultsError]

C16_Witness ==
    /\ SoftFailure
    /\ trace[2].path = "no_results"
    /\ trace[3].pre["parsed_oem_info"] = Absent
    /\ trace[3].post["llm_response_json"] = Str(CanonicalJson)

\* vector_search was entered with a classification whose part category is the
\* not-available marker, as the completion ("na") or the soft-failure path
\* of synthesize ("NA") writes it
NotAvailableCategory ==
    /\ Ran(5)
    /\ trace[5].pre["parsed_oem_info"] # Absent
    /\ trace[5].pre["parsed_oem_info"].part_category \in {<<"na">>, <<"NA">>}

\* C17: when the part category is the not-available marker, including the
\* canonical answer of the soft-failure path, vector_search sets unspsc_code
\* and unspsc_family to "na", sets error to the prior error if any, else to
\* the no-valid-category message, and does not query the vector index.
C17_NotAvailableCategoryGivesNa ==
    NotAvailableCategory =>
        /\ trace[5].calls = << >>
        /\ trace[5].post["unspsc_code"] = NaLower
        /\ trace[5].post["unspsc_family"] = NaLower
        /\ trace[5].post["error"] =
               IF Truthy(Get(trace[5].pre, "error"))
               THEN trace[5].pre["error"]
               ELSE Str(<<"No valid part category">>)

\* the search provider was called and answered with zero results
SearchFoundNothing ==
    /\ Ran(2)
    /\ trace[2].calls = <<"search">>
    /\ trace[2].outcome.kind = "response"
    /\ ~trace[2].outcome.has_items \/ trace[2].outcome.items = << >>

\* search was entered with no error and no usable translated_query
MissingTranslatedQuery ==
    /\ Ran(2)
    /\ ~Truthy(Get(trace[2].pre, "error"))
    /\ ~Truthy(Get(trace[2].pre, "translated_query"))

\* C18: on a provider failure search sets search_results to the sentinel text
\* holding the failure message and sets error; when the provider returns zero
\* results search_results says that no results were found and error is
\* cleared; when translated_query is absent or empty and error is absent,
\* error becomes the missing-translated-query message, nothing else changes
\* and the provider is not called.
C18_SearchSignalling ==
    /\ SearchRaised =>
           trace[2].post = [trace[2].pre EXCEPT
               !["search_results"] = Str(<<SEARCH_ERROR_PHRASE, ": ">> \o trace[2].outcome.msg),
               !["error"] = Str(<<"Search error: ">> \o trace[2].outcome.msg)]
    /\ SearchRaised => Truthy(trace[2].post["error"])
    /\ SearchFoundNothing =>
           /\ trace[2].post["search_results"]
                  = Str(NoResultsText(trace[2].pre["translated_query"].val))
           /\ trace[2].post["error"] = None
    /\ MissingTranslatedQuery =>
           /\ trace[2].calls = << >>
           /\ trace[2].post = [trace[2].pre EXCEPT
                  !["error"] = Str(<<"No translated query available for search.">>)]

\* the translation of the query came back empty
C18_Witness ==
    /\ MissingTranslatedQuery
    /\ trace[1].calls = <<"detect_language", "translate">>
    /\ trace[2].pre["translated_query"] = Str(<< >>)
    /\ trace[2].path = "missing_input"

\* C19: search and synthesize, when entered with error present, return the
\* Record with every field unchanged and do not call their provider.
C19_SearchAndSynthesisSkipOnError ==
    \A i \in {2, 3} :
        (Ran(i) /\ Truthy(Get(trace[i].pre, "error"))) =>
            /\ trace[i].post = trace[i].pre
            /\ trace[i].path = "skip"
            /\ trace[i].calls = << >>

\* both stages were entered with the error of a failed translation
C19_Witness ==
    /\ pc = "parse_output"
    /\ trace[1].path = "exception"
    /\ trace[2].path = "skip"
    /\ trace[3].path = "skip"
    /\ Truthy(trace[3].pre["error"])

NoOutputError == Str(<<"No LLM response to parse.">>)

\* parse_output went on to parser.parse
AttemptedParse(i) == trace[i].path \in {"parsed", "exception"}

\* C20 as stated: parse_output returns the Record unchanged exactly when
\* error is present and llm_response_json is absent; with llm_response_json
\* and error both absent it sets the no-output-to-parse error and changes
\* nothing else; whenever llm_response_json is present it attempts the parse,
\* even if error is present.
C20_ParsingSkipPredicate ==
    Ran(4) =>
        LET pre == trace[4].pre
            error_present == Truthy(Get(pre, "error"))
            output == Get(pre, "llm_response_json")
        IN
        /\ trace[4].path = "skip" <=> (error_present /\ output = None)
        /\ trace[4].path = "skip" => trace[4].post = pre
        /\ (output = None /\ ~error_present) =>
               trace[4].post = [pre EXCEPT !["error"] = NoOutputError]
        /\ output # None => AttemptedParse(4)

\* C20 amended: parse_output returns the Record unchanged exactly when error
\* is present and llm_response_json is absent; with llm_response_json absent
\* or empty and error absent it sets the no-output-to-parse error and changes
\* nothing else; whenever llm_response_json is present and not empty it
\* attempts the parse, even if error is present.
C20_ParsingSkipPredicateNonEmpty ==
    Ran(4) =>
        LET pre == trace[4].pre
            error_present == Truthy(Get(pre, "error"))
            output == Get(pre, "llm_response_json")
        IN
        /\ trace[4].path = "skip" <=> (error_present /\ output = None)
        /\ trace[4].path = "skip" => trace[4].post = pre
        /\ (~Truthy(output) /\ ~error_present) =>
               trace[4].post = [pre EXCEPT !["error"] = NoOutputError]
        /\ Truthy(output) => AttemptedParse(4)

\* the canonical answer of the soft-failure path is parsed although error is set
C20_Witness ==
    /\ Ran(4)
    /\ trace[3].path = "soft_failure"
    /\ Truthy(trace[4].pre["error"])
    /\ trace[4].path = "parsed"

\* C21: when parse_output parses its input successfully it stores the parsed
\* answer in parsed_oem_info and leaves error exactly as it found it, and
\* changes nothing else; so after the soft-failure path of synthesize the
\* parse succeeds on the canonical answer, and the error "No valid search
\* results for synthesis." is in the Record after parse_output, in every later
\* state and in the final Record.
C21_ParseSuccessKeepsError ==
    /\ ParsedBy(4) =>
           /\ trace[4].post["parsed_oem_info"]
                  = parser_parse(trace[4].pre["llm_response_json"].val).value
           /\ trace[4].post["error"] = trace[4].pre["error"]
           /\ \A k \in Keys \ {"parsed_oem_info"} : trace[4].post[k] = trace[4].pre[k]
    /\ SoftFailure /\ Ran(4) =>
           /\ ParsedBy(4)
           /\ trace[4].post["error"] = NoValidResultsError
           /\ state["error"] = NoValidResultsError

\* a finished run through the soft-failure path whose vector stage found a hit
C21_Witness ==
    /\ pc = "done"
    /\ SoftFailure
    /\ ParsedBy(4)
    /\ trace[4].pre["error"] = NoValidResultsError
    /\ trace[5].path = "hit"
    /\ state["error"] = NoValidResultsError

\* the error of a Record is present: a non-empty message
ErrorPresent(st) == Truthy(Get(st, "error"))

VectorSearchFailure(v) == IsStr(v) /\ v.val # << >> /\ v.val[1] = "Vector search error: "

\* C22: vector_search never replaces an error that is present on entry.  When
\* the index (or its construction) raises, error becomes the previous error if
\* there was one and a "Vector search error: ..." message otherwise, and the
\* two taxonomy fields are left as they were; on zero hits the taxonomy fields
\* are "na" and "na" and error is exactly what it was, an absent error staying
\* absent; on a hit error is exactly what it was.
C22_ClassificationKeepsError ==
    Ran(5) =>
        LET pre == trace[5].pre
            post == trace[5].post
            path == trace[5].path
        IN
        /\ ErrorPresent(pre) => post["error"] = pre["error"]
        /\ path = "exception" =>
               /\ ~ErrorPresent(pre) => VectorSearchFailure(post["error"])
               /\ post["unspsc_code"] = pre["unspsc_code"]
               /\ post["unspsc_family"] = pre["unspsc_family"]
        /\ path = "no_hits" =>
               /\ post["unspsc_code"] = NaLower
               /\ post["unspsc_family"] = NaLower
               /\ post["error"] = pre["error"]
               /\ ~ErrorPresent(pre) => ~ErrorPresent(post)
        /\ path = "hit" => post["error"] = pre["error"]

\* the index raised in a run that entered vector_search with the error of the
\* soft-failure path
C22_Witness ==
    /\ Ran(5)
    /\ trace[5].path = "exception"
    /\ trace[5].calls = <<"vector_index">>
    /\ trace[5].pre["error"] = NoValidResultsError
    /\ trace[5].post["error"] = NoValidResultsError

\* synthesize caught an exception of the completion provider or of its client
CompletionRaised == Ran(3) /\ trace[3].path = "exception"

\* C23: when the completion provider raises, synthesize stores the message
\* "LLM synthesis error: " followed by the exception text in error and changes
\* nothing else, so llm_response_json and parsed_oem_info stay absent; then
\* parse_output and vector_search return the Record unchanged, the vector
\* index is never queried, and the Result has "NA" in oem, part_category,
\* unspsc_code and unspsc_family.
C23_CompletionFailureSkipsRest ==
    CompletionRaised =>
        /\ trace[3].outcome.kind = "completion_raises" =>
               trace[3].post["error"] = Str(<<"LLM synthesis error: ">> \o trace[3].outcome.msg)
        /\ IsStr(trace[3].post["error"]) /\ trace[3].post["error"].val[1] = "LLM synthesis error: "
        /\ \A k \in Keys \ {"error"} : trace[3].post[k] = trace[3].pre[k]
        /\ trace[3].post["llm_response_json"] = Absent
        /\ trace[3].post["parsed_oem_info"] = Absent
        /\ \A i \in 4..Len(trace) :
               /\ trace[i].path = "skip"
               /\ trace[i].post = trace[i].pre
               /\ trace[i].calls = << >>
        /\ CallsTo("vector_index") = 0
        /\ pc = "done" => result = ResultOf(query, <<"NA">>, <<"NA">>, <<"NA">>, <<"NA">>)

\* a finished run whose completion call raised after a search with results
C23_Witness ==
    /\ pc = "done"
    /\ CompletionRaised
    /\ trace[3].calls = <<"completion">>
    /\ trace[2].path = "results"
    /\ trace[4].path = "skip"
    /\ trace[5].path = "skip"
    /\ result = ResultOf(query, <<"NA">>, <<"NA">>, <<"NA">>, <<"NA">>)

\* translate returned from its try block
Translated == Ran(1) /\ trace[1].path = "translated"

\* C24: when translate succeeds it stores translated_query and clears error;
\* if the detected language is "en" the translated query is the original query
\* and the provider's translate operation is not called, otherwise the
\* translated query is the text the provider returned.  After the stage
\* exactly one of translated_query and error holds a string.
C24_TranslationStage ==
    Ran(1) =>
        LET pre == trace[1].pre
            post == trace[1].post
            o == trace[1].outcome
        IN
        /\ Translated =>
               /\ IsStr(post["translated_query"])
               /\ post["error"] = None
               /\ \A k \in Keys \ {"translated_query", "error"} : post[k] = pre[k]
               /\ o.language = "en" =>
                      /\ post["translated_query"] = Str(query)
                      /\ trace[1].calls = <<"detect_language">>
               /\ o.language # "en" =>
                      /\ post["translated_query"] = Str(o.translatedText)
                      /\ trace[1].calls = <<"detect_language", "translate">>
        /\ IsStr(post["translated_query"]) # IsStr(post["error"])

\* a query detected as English went through without a call of translate, and
\* the search stage then ran on it
C24_Witness ==
    /\ Ran(2)
    /\ Translated
    /\ trace[1].outcome.language = "en"
    /\ query # << >>
    /\ trace[1].post["translated_query"] = Str(query)
    /\ CallsTo("translate") = 0

\* C25: error is written once in a run: as soon as a stage has left a message
\* in error, every later stage leaves that same message there, so it is the
\* error of every later state of the run and of the final Record; no stage
\* clears it or replaces it by another message.
C25_ErrorWriteOnce ==
    \A i \in 1..Len(trace) :
        ErrorPresent(trace[i].post) =>
            /\ \A j \in i..Len(trace) : trace[j].post["error"] = trace[i].post["error"]
            /\ state["error"] = trace[i].post["error"]

\* a finished run whose search found nothing: synthesize set the error, and
\* parse_output and vector_search both ran, not skipped, after it
C25_Witness ==
    /\ pc = "done"
    /\ trace[2].path = "no_results"
    /\ ~ErrorPresent(trace[2].post)
    /\ SoftFailure
    /\ trace[4].path = "parsed"
    /\ trace[5].path = "no_hits"
    /\ state["error"] = NoValidResultsError

\* the key holds a value: it is neither missing nor None
Present(st, key) == st[key] \notin {Absent, None}

\* C26: at the end of every run, a Record without an error has all the fields
\* the stages produce: translated_query, search_results, llm_response_json
\* and parsed_oem_info are present and not empty, and unspsc_code and
\* unspsc_family are both present; so a run that failed to produce one of
\* them ends with an error message in the Record.
C26_NoErrorMeansComplete ==
    pc \in {"END", "done"} /\ ~ErrorPresent(state) =>
        /\ \A k \in {"translated_query", "search_results", "llm_response_json", "parsed_oem_info"} :
               Present(state, k) /\ Truthy(state[k])
        /\ Present(state, "unspsc_code")
        /\ Present(state, "unspsc_family")

\* a finished run without an error although the index returned no hit
C26_Witness ==
    /\ pc = "done"
    /\ ~ErrorPresent(state)
    /\ trace[3].path = "completed"
    /\ trace[5].path = "no_hits"
    /\ Present(state, "unspsc_code")

====
